---- MODULE Spec2Model ----
(***************************************************************************)
(* Model of the document-analysis client of the Content Understanding API  *)
(* backend (backend/app/services/content_understanding.py).                *)
(*                                                                         *)
(* One invocation of an entry point of ContentUnderstandingService is      *)
(* followed from its call to its return.  The coroutine is cut at its      *)
(* awaits: every action runs the code from one await to the next, and the  *)
(* answer of the remote side (the POST response, a GET response) is the    *)
(* input of the action that resumes the coroutine.                         *)
(*                                                                         *)
(* Python values are modelled as follows.                                  *)
(*   - a JSON scalar is a record [kind, text]: kind is the Python type,    *)
(*     text its literal;                                                   *)
(*   - a status string is a sequence of one-character strings, so that     *)
(*     str.lower() is computed character by character;                     *)
(*   - a dict is a record with a set `has` of the keys that are present;   *)
(*     dict.get is the operator Get;                                       *)
(*   - an f-string message is a record [fmt, status, code, text] holding   *)
(*     the format and the values interpolated into it.                     *)
(***************************************************************************)
EXTENDS Integers, Sequences, FiniteSets, TLC

(***************************************************************************)
(* Bounds of the model.                                                    *)
(***************************************************************************)
\* largest max_retries of a direct _poll_for_result call
MaxRetriesDirect == 3
\* largest retry_interval of a direct _poll_for_result call
MaxInterval == 1
\* most fields in analyzeResult.fields of a payload given to a direct parse call
MaxFields == 2

(***************************************************************************)
(* Program constants.                                                      *)
(***************************************************************************)
\* _poll_for_result: max_retries: int = 60
DefaultMaxRetries == 60
\* _poll_for_result: retry_interval: int = 2
DefaultRetryInterval == 2
\* the status the submission is documented to answer with
Accepted == 202
\* the URL hardcoded into the request body
test_file_url == "https://saprotocolextractions.blob.core.windows.net/container/labelingProjects/337f5cd0-eae9-4cc0-a252-fd0a8ddfdf35/test/Pfizer-1_split.pdf"

(***************************************************************************)
(* Python scalars.                                                         *)
(***************************************************************************)
PyVal(k, t) == [kind |-> k, text |-> t]
PyNone == PyVal("NoneType", "None")

\* how a call ends: the tag tells a returned value from a raised exception
Ending(t, v, e) == [tag |-> t, value |-> v, exc |-> e]

\* bool(v): None, False, 0 and the empty string are falsy.
Truthy(v) ==
    CASE v.kind = "NoneType" -> FALSE
      [] v.kind = "bool" -> v.text = "True"
      [] v.kind = "int" -> v.text # "0"
      [] v.kind = "float" -> v.text # "0.0"
      [] v.kind = "str" -> v.text # ""
      [] OTHER -> TRUE

\* a or b
PyOr(a, b) == IF Truthy(a) THEN a ELSE b

\* d.get(k): the member when the key is present, None otherwise
Get(d, k) == IF k \in d.has THEN d[k] ELSE PyNone

(***************************************************************************)
(* str.lower() on a sequence of characters.                                *)
(***************************************************************************)
UpperChars == <<"A","B","C","D","E","F","G","H","I","J","K","L","M",
                "N","O","P","Q","R","S","T","U","V","W","X","Y","Z">>
LowerChars == <<"a","b","c","d","e","f","g","h","i","j","k","l","m",
                "n","o","p","q","r","s","t","u","v","w","x","y","z">>

LowerChar(c) ==
    IF \E i \in DOMAIN UpperChars : UpperChars[i] = c
    THEN LowerChars[CHOOSE i \in DOMAIN UpperChars : UpperChars[i] = c]
    ELSE c

Lower(s) == [i \in DOMAIN s |-> LowerChar(s[i])]

\* the status strings the poll loop compares with
S_succeeded == <<"s","u","c","c","e","e","d","e","d">>
S_failed == <<"f","a","i","l","e","d">>
S_cancelled == <<"c","a","n","c","e","l","l","e","d">>
S_notstarted == <<"n","o","t","s","t","a","r","t","e","d">>
S_running == <<"r","u","n","n","i","n","g">>
S_empty == <<>>

(***************************************************************************)
(* Messages and exceptions.                                                *)
(***************************************************************************)
Msg(f, s, c, t) == [fmt |-> f, status |-> s, code |-> c, text |-> t]
NoMsg == Msg("None", S_empty, 0, "")

\* an exception object: its class, the response status it carries
\* (HTTPStatusError only), the response text, and str(e)
Exc(k, c, t, m) == [kind |-> k, code |-> c, text |-> t, msg |-> m]
NoExc == Exc("none", 0, "", NoMsg)

\* the classes derived from Exception
ExceptionClasses == {"Exception", "HTTPStatusError", "RequestError",
                     "JSONDecodeError", "AttributeError"}

\* response.raise_for_status(): nothing for a 2xx response
IsSuccess(code) == code \in 200..299
HTTPStatusError(code, text) ==
    Exc("HTTPStatusError", code, text, Msg("httpx status error", S_empty, code, ""))
\* a transport failure of the HTTP client (connect error, read timeout)
RequestError == Exc("RequestError", 0, "", Msg("httpx transport error", S_empty, 0, ""))
\* response.json() on a body that is not JSON
JSONDecodeError == Exc("JSONDecodeError", 0, "", Msg("json decode error", S_empty, 0, ""))
\* a method looked up on a value that has none (.items() on a list)
AttributeError == Exc("AttributeError", 0, "", Msg("attribute error", S_empty, 0, ""))
\* raise Exception(message)
PlainException(m) == Exc("Exception", 0, "", m)

(***************************************************************************)
(* The provider's JSON.                                                    *)
(***************************************************************************)
\* one entry of analyzeResult.fields: null, or an object whose members
\* "value", "content" and "confidence" are each present or not
FieldKeys == {"value", "content", "confidence"}
FieldData(h, v, c, f) ==
    [isNone |-> FALSE, has |-> h, value |-> v, content |-> c, confidence |-> f]
NullFieldData ==
    [isNone |-> TRUE, has |-> {}, value |-> PyNone, content |-> PyNone,
     confidence |-> PyNone]

ValueChoices == {PyNone, PyVal("int", "0"), PyVal("bool", "False"),
                 PyVal("str", ""), PyVal("str", "x")}
ContentChoices == {PyNone, PyVal("str", "c")}
ConfidenceChoices == {PyVal("float", "0.9")}

\* a member that is absent is written None, so that a dict has one encoding
FieldDataSet ==
    {NullFieldData} \cup
    { FieldData(h, v, c, f) :
        h \in SUBSET FieldKeys,
        v \in ValueChoices, c \in ContentChoices, f \in ConfidenceChoices \cup {PyNone} }
FieldEntries ==
    { d \in FieldDataSet :
        \/ d.isNone
        \/ /\ ("value" \notin d.has => d.value = PyNone)
           /\ ("content" \notin d.has => d.content = PyNone)
           /\ ("confidence" \in d.has <=> d.confidence # PyNone) }

\* the field names of the provider, in the order of the test fixture
FieldNameList == <<"ProtocolNumber", "ProtocolTitle", "SponsorName", "Phase">>
FieldNames(n) == { FieldNameList[i] : i \in 1..n }

Item(name, data) == [name |-> name, data |-> data]

\* analyzeResult.fields: a mapping, kept as the sequence of its items in
\* iteration order; the keys of a mapping are distinct
RECURSIVE FieldMaps(_, _)
FieldMaps(n, names) ==
    IF n = 0 THEN {<<>>}
    ELSE LET shorter == FieldMaps(n - 1, names)
         IN shorter \cup
            { Append(m, Item(nm, d)) :
                m \in { q \in shorter : Len(q) = n - 1 },
                nm \in names, d \in FieldEntries }

DistinctKeys(m) == \A i, j \in DOMAIN m : m[i].name = m[j].name => i = j
FieldMapsUpTo(n) == { m \in FieldMaps(n, FieldNames(n)) : DistinctKeys(m) }

\* the "error" member of a payload: absent, or an object with or without
\* a "message"
ErrorMember(p, h, m) == [present |-> p, hasMessage |-> h, message |-> m]
NoErrorMember == ErrorMember(FALSE, FALSE, "")
ErrorMembers == {NoErrorMember, ErrorMember(TRUE, FALSE, ""),
                 ErrorMember(TRUE, TRUE, "InvalidRequest: the file is corrupt")}

\* the body of a poll response.  shape says what analyzeResult holds:
\*   "absent"    no analyzeResult member
\*   "nofields"  analyzeResult without a fields member
\*   "fields"    analyzeResult.fields is the mapping `fields`
\*   "badfields" analyzeResult.fields is a JSON array
Payload(hs, st, er, sh, fs) ==
    [hasStatus |-> hs, status |-> st, error |-> er, shape |-> sh, fields |-> fs]
NoPayload == Payload(FALSE, S_empty, NoErrorMember, "none", <<>>)

\* status strings a provider may send: the five known ones in several
\* letter cases, and unrecognised ones
SucceededSpellings == {S_succeeded,
                       <<"S","u","c","c","e","e","d","e","d">>,
                       <<"S","U","C","C","E","E","D","E","D">>}
FailedSpellings == {S_failed, <<"F","a","i","l","e","d">>,
                    S_cancelled, <<"C","a","n","c","e","l","l","e","d">>,
                    <<"C","A","N","C","E","L","L","E","D">>}
ProcessingSpellings == {S_running, <<"R","u","n","n","i","n","g">>,
                        S_notstarted,
                        <<"N","o","t","S","t","a","r","t","e","d">>}
UnknownSpellings == {S_empty,
                     <<"c","a","n","c","e","l","e","d">>,
                     <<"P","e","n","d","i","n","g">>,
                     <<"r","u","n","n","i","n","g"," ">>}

\* the payloads a provider serves for a job: the analysis result comes
\* with a succeeded status, the error member with the other ones
PayloadsWith(fieldMaps) ==
    { Payload(TRUE, st, NoErrorMember, "fields", fs) :
        st \in SucceededSpellings, fs \in fieldMaps }
    \cup { Payload(TRUE, st, NoErrorMember, sh, <<>>) :
        st \in SucceededSpellings, sh \in {"absent", "nofields", "badfields"} }
    \cup { Payload(TRUE, st, er, "absent", <<>>) :
        st \in FailedSpellings \cup ProcessingSpellings \cup UnknownSpellings,
        er \in ErrorMembers }
    \cup { Payload(FALSE, S_empty, er, "absent", <<>>) : er \in ErrorMembers }

(***************************************************************************)
(* models.py                                                               *)
(***************************************************************************)
ExtractedField(name, value, confidence) ==
    [field_name |-> name, value |-> value, confidence |-> confidence]

\* error_message and raw_result default to None
DocumentAnalysisResponse(id, fields, status, error_message) ==
    [document_id |-> id, fields |-> fields, status |-> status,
     error_message |-> error_message, raw_result |-> PyNone]
NoResponse == DocumentAnalysisResponse("", <<>>, "none", NoMsg)

\* what a call ends with: a value it returned or an exception it raised
Returned(v) == Ending("return", v, NoExc)
Raised(e) == Ending("raise", NoResponse, e)
NoOutcome == Ending("none", NoResponse, NoExc)

(***************************************************************************)
(* ContentUnderstandingService._parse_analysis_result                      *)
(***************************************************************************)
\* value = field_data.get("value") or field_data.get("content")
ResolveValue(field_data) == PyOr(Get(field_data, "value"), Get(field_data, "content"))

\* one pass of the loop body: the ExtractedField appended for an item, if any
ParseItem(item) ==
    IF item.data.isNone THEN <<>>
    ELSE LET value == ResolveValue(item.data)
             confidence == Get(item.data, "confidence")
         IN IF value # PyNone
            THEN <<ExtractedField(item.name, value, confidence)>>
            ELSE <<>>

\* for field_name, field_data in fields_data.items(): ...
RECURSIVE ExtractFields(_)
ExtractFields(fields_data) ==
    IF fields_data = <<>> THEN <<>>
    ELSE ParseItem(Head(fields_data)) \o ExtractFields(Tail(fields_data))

\* result.get("analyzeResult", {}).get("fields", {})
FieldsData(result) == IF result.shape = "fields" THEN result.fields ELSE <<>>

_parse_analysis_result(document_id, result) ==
    IF result.shape = "badfields"
    THEN Raised(AttributeError)
    ELSE Returned(DocumentAnalysisResponse(
             document_id, ExtractFields(FieldsData(result)), "success", PyNone))

(***************************************************************************)
(* What the remote side may answer.                                        *)
(***************************************************************************)
\* the fields of the payloads served to a polling call: none, the mapping
\* of the mock_azure_response fixture, and mappings with a null entry, a
\* null value and a falsy value
Scored(v) == FieldData({"value", "confidence"}, v, PyNone, PyVal("float", "0.9"))
ServedFieldMaps ==
    { <<>>,
      << Item("ProtocolNumber", Scored(PyVal("str", "x"))),
         Item("ProtocolTitle", Scored(PyVal("str", "x"))),
         Item("SponsorName", Scored(PyVal("str", "x"))) >>,
      << Item("ProtocolNumber", Scored(PyVal("str", "x"))),
         Item("ProtocolTitle", FieldData({"value"}, PyNone, PyNone, PyNone)) >>,
      << Item("Phase", NullFieldData),
         Item("ProtocolNumber", FieldData({"value", "content"}, PyVal("int", "0"),
                                          PyVal("str", "c"), PyNone)) >> }
ServedPayloads == PayloadsWith(ServedFieldMaps)

OperationLocation == "https://test-endpoint.azure.com/operation/12345"

\* the answer to the submission: a transport failure, or a response with a
\* status code, a body, and an Operation-Location header that is absent,
\* empty or a URL
PostResponse(tr, code, has, loc, text) ==
    [transport |-> tr, code |-> code, hasLocation |-> has, location |-> loc,
     text |-> text]
PostCodes == {200, 202, 302, 400, 500}
PostResponses ==
    { PostResponse(TRUE, 0, FALSE, "", "") } \cup
    { PostResponse(FALSE, c, h, l, "body") :
        c \in PostCodes, h \in BOOLEAN, l \in {"", OperationLocation} }

\* the answer to a poll: a transport failure, or a response with a status
\* code and a body that is a JSON object (json) or is not
GetResponse(tr, code, js, payload) ==
    [transport |-> tr, code |-> code, json |-> js, payload |-> payload]
GetCodes == {200, 404, 500}
GetResponses ==
    { GetResponse(TRUE, 0, FALSE, NoPayload) } \cup
    { GetResponse(FALSE, c, FALSE, NoPayload) : c \in GetCodes } \cup
    { GetResponse(FALSE, 200, TRUE, p) : p \in ServedPayloads }

(***************************************************************************)
(* The state of one invocation.                                            *)
(***************************************************************************)
VARIABLES
    entry,             \* the method called: "analyze", "poll" or "parse"
    settings,          \* the four settings the service was constructed from
    document_url,      \* the URL the caller holds for the document
    max_retries,       \* argument of _poll_for_result
    retry_interval,    \* argument of _poll_for_result
    raw,               \* argument `result` of a direct _parse_analysis_result
    pc,                \* "call", "await_post", "await_get", "await_sleep", "done"
    document_id,       \* the uuid generated by analyze_document
    request_body,      \* inputs[0].url of the JSON posted, "" before the POST
    operation_location,\* the URL polled
    submit_status,     \* status code of the submission's response, 0 before it
    submit_headers,    \* the Operation-Location header of that response
    net,               \* the remote calls and sleeps so far, in order
    attempt,           \* loop variable of _poll_for_result
    last_payload,      \* the JSON of the latest poll response
    processing_seen,   \* number of still-processing answers so far
    poll_out,          \* what _poll_for_result ended with
    outcome            \* what the entry point ended with

\* the state of one StorageService instance and of the coroutines using it
VARIABLES
    client,            \* the attributes of the StorageService instance
    calls,             \* per caller: the upload_file / delete_file it runs
    auth_requests,     \* number of b2_authorize_account requests issued
    auth_succeeded     \* number of _authenticate calls that returned

\* the state of one request to an analyze endpoint
VARIABLES
    http,              \* the route handler: its position, locals and response
    task               \* the background task the handler scheduled

storageVars == <<client, calls, auth_requests, auth_succeeded>>
routeVars == <<http, task>>

\* the state of the remaining services
VARIABLES
    keyed,             \* two uploads and the storage keys and URLs they got
    construe,          \* one process_extracted_data call
    instances,         \* the StorageService instances that were constructed
    requests           \* per analyze request: the upload_file call it runs

serviceVars == <<keyed, construe, instances, requests>>

vars == <<entry, settings, document_url, max_retries, retry_interval, raw, pc,
          document_id, request_body, operation_location, submit_status,
          submit_headers, net, attempt, last_payload, processing_seen,
          poll_out, outcome, client, calls, auth_requests, auth_succeeded,
          http, task, keyed, construe, instances, requests>>

inputs == <<entry, settings, document_url, max_retries, retry_interval, raw>>

DocIds == {"uuid-1", "uuid-2"}
DocumentUrls == {test_file_url, "https://f000.backblazeb2.com/file/bucket/20250101_000000_abcd1234_doc.pdf"}

SettingNames == {"endpoint", "api_key", "api_version", "analyzer_name"}
AllSettings == [SettingNames -> {"", "configured"}]
FullSettings == [n \in SettingNames |-> "configured"]

Count(kind) == Cardinality({ i \in DOMAIN net : net[i] = kind })

\* a poll answer by which the provider says the job is not finished yet
StillProcessing(r) ==
    /\ ~r.transport /\ IsSuccess(r.code) /\ r.json
    /\ r.payload.hasStatus /\ r.payload.status \in ProcessingSpellings

\* response.headers as far as the code reads it: whether Operation-Location
\* is there, and its value
Headers(has, loc) == [hasLocation |-> has, location |-> loc]
NoHeaders == Headers(FALSE, "")

\* lines 106-110: the body of a submission response that is not a 202 is
\* logged as an error
ErrorBodyLogged == submit_status # 0 /\ submit_status # Accepted

(***************************************************************************)
(* ContentUnderstandingService.analyze_document                            *)
(***************************************************************************)
\* mutant: any() where the code has all()
Configured_Any(cfg) == \E n \in SettingNames : Truthy(PyVal("str", cfg[n]))

\* all([self.endpoint, self.api_key, self.api_version, self.analyzer_name])
Configured(cfg) == \A n \in SettingNames : Truthy(PyVal("str", cfg[n]))

\* mutant: the not_configured response carries no message
NotConfiguredResponse_NoMessage(id) ==
    DocumentAnalysisResponse(id, <<>>, "not_configured", PyNone)

NotConfiguredResponse(id) ==
    DocumentAnalysisResponse(id, <<>>, "not_configured",
        Msg("Azure Content Understanding credentials not fully configured.",
            S_empty, 0, ""))

\* request_body["inputs"][0]["url"]
RequestUrl(url) == test_file_url

\* mutant: the handler for Exception is missing
ExceptClauses_HttpOnly(id, body) ==
    IF body.tag = "raise" /\ body.exc.kind = "HTTPStatusError"
    THEN Returned(DocumentAnalysisResponse(id, <<>>, "error",
             Msg("HTTP {code}: {text}", S_empty, body.exc.code, body.exc.text)))
    ELSE body

\* the two except clauses around the body of analyze_document: what the
\* method ends with, given what the body ended with
ExceptClauses(id, body) ==
    IF body.tag # "raise" THEN body
    ELSE IF body.exc.kind = "HTTPStatusError"
    THEN Returned(DocumentAnalysisResponse(id, <<>>, "error",
             Msg("HTTP {code}: {text}", S_empty, body.exc.code, body.exc.text)))
    ELSE IF body.exc.kind \in ExceptionClasses
    THEN Returned(DocumentAnalysisResponse(id, <<>>, "error", body.exc.msg))
    ELSE body

\* mutant: the Operation-Location header is not checked
SubmitDecision_NoHeaderCheck(r) ==
    IF r.transport THEN Raised(RequestError)
    ELSE IF ~IsSuccess(r.code) THEN Raised(HTTPStatusError(r.code, r.text))
    ELSE NoOutcome

\* lines 114-119: what the submission's response lets the body do next
SubmitDecision(r) ==
    IF r.transport THEN Raised(RequestError)
    ELSE IF ~IsSuccess(r.code) THEN Raised(HTTPStatusError(r.code, r.text))
    ELSE IF ~(r.hasLocation /\ Truthy(PyVal("str", r.location)))
    THEN Raised(PlainException(
             Msg("No Operation-Location header in response", S_empty, 0, "")))
    ELSE NoOutcome

(***************************************************************************)
(* ContentUnderstandingService._poll_for_result                            *)
(***************************************************************************)
\* mutant: one iteration too many
InRange_Inclusive(a, n) == a <= n

\* mutant: the loop has no attempt cap
InRange_Unbounded(a, n) == TRUE

\* attempt in range(max_retries)
InRange(a, n) == a < n

\* result.get("status", "").lower()
StatusOf(result) == Lower(IF result.hasStatus THEN result.status ELSE S_empty)

\* mutant: the provider's message is dropped
ErrorMessageOf_Generic(result) == "Analysis failed"

\* result.get("error", {}).get("message", "Analysis failed")
ErrorMessageOf(result) ==
    IF result.error.present /\ result.error.hasMessage
    THEN result.error.message
    ELSE "Analysis failed"

TimeoutError(n, interval) ==
    PlainException(Msg("Analysis timed out after {code} seconds", S_empty,
                       n * interval, ""))

\* mutant: the status is compared as sent, without .lower()
StatusDecision_CaseSensitive(result) ==
    LET status == IF result.hasStatus THEN result.status ELSE S_empty IN
    IF status = S_succeeded THEN Returned(result)
    ELSE IF status \in {S_failed, S_cancelled}
    THEN Raised(PlainException(
             Msg("Analysis {status}: {text}", status, 0, ErrorMessageOf(result))))
    ELSE IF status \in {S_notstarted, S_running} THEN NoOutcome
    ELSE Raised(PlainException(Msg("Unknown status: {status}", status, 0, "")))

\* mutant: a status that is not terminal counts as still processing
StatusDecision_UnknownPolls(result) ==
    LET status == StatusOf(result) IN
    IF status = S_succeeded THEN Returned(result)
    ELSE IF status \in {S_failed, S_cancelled}
    THEN Raised(PlainException(
             Msg("Analysis {status}: {text}", status, 0, ErrorMessageOf(result))))
    ELSE NoOutcome

\* the if/elif chain on the status of one poll answer: return the payload,
\* raise, or sleep (NoOutcome) and go round the loop again
StatusDecision(result) ==
    LET status == StatusOf(result) IN
    IF status = S_succeeded THEN Returned(result)
    ELSE IF status \in {S_failed, S_cancelled}
    THEN Raised(PlainException(
             Msg("Analysis {status}: {text}", status, 0, ErrorMessageOf(result))))
    ELSE IF status \in {S_notstarted, S_running} THEN NoOutcome
    ELSE Raised(PlainException(Msg("Unknown status: {status}", status, 0, "")))

\* lines 166-185: one answer to the GET of one loop iteration
PollDecision(r) ==
    IF r.transport THEN Raised(RequestError)
    ELSE IF ~IsSuccess(r.code) THEN Raised(HTTPStatusError(r.code, ""))
    ELSE IF ~r.json THEN Raised(JSONDecodeError)
    ELSE StatusDecision(r.payload)

(***************************************************************************)
(* Steps shared by the actions.                                            *)
(***************************************************************************)
\* the entry point ends: _poll_for_result ended with pollOut (NoOutcome
\* when it was not reached), the body of the entry point with body
Exit(pollOut, body) ==
    /\ pc' = "done"
    /\ poll_out' = pollOut
    /\ outcome' = IF entry = "analyze" THEN ExceptClauses(document_id, body)
                  ELSE body
    /\ UNCHANGED <<net, attempt>>

\* _poll_for_result ends with pollOut; analyze_document goes on to parse
\* what it returned
PollExit(pollOut) ==
    Exit(pollOut,
         IF entry = "analyze" /\ pollOut.tag = "return"
         THEN _parse_analysis_result(document_id, pollOut.value)
         ELSE pollOut)

\* the head of the for loop with the loop variable at a: the next GET is
\* issued, or the loop is exhausted and the timeout is raised
LoopHead(a) ==
    IF InRange(a, max_retries)
    THEN /\ pc' = "await_get"
         /\ attempt' = a
         /\ net' = Append(net, "GET")
         /\ UNCHANGED <<poll_out, outcome>>
    ELSE PollExit(Raised(TimeoutError(max_retries, retry_interval)))

(***************************************************************************)
(* Actions.                                                                *)
(***************************************************************************)
\* analyze_document is called: lines 41-98, up to the awaited POST
AnalyzeBegin ==
    /\ entry = "analyze" /\ pc = "call"
    /\ \E id \in DocIds :
        /\ document_id' = id
        /\ IF ~Configured(settings)
           THEN /\ pc' = "done"
                /\ outcome' = Returned(NotConfiguredResponse(id))
                /\ UNCHANGED <<request_body, net>>
           ELSE /\ pc' = "await_post"
                /\ request_body' = RequestUrl(document_url)
                /\ net' = Append(net, "POST")
                /\ UNCHANGED outcome
    /\ UNCHANGED <<inputs, operation_location, submit_status, submit_headers,
                   attempt, last_payload, processing_seen, poll_out,
                   storageVars, routeVars, serviceVars>>

\* the POST is answered: lines 100-122, up to the first awaited GET
PostResponds ==
    /\ pc = "await_post"
    /\ \E r \in PostResponses :
        LET d == SubmitDecision(r) IN
        /\ submit_status' = r.code
        /\ submit_headers' = Headers(r.hasLocation, r.location)
        /\ IF d.tag = "raise"
           THEN /\ Exit(NoOutcome, d)
                /\ UNCHANGED operation_location
           ELSE /\ operation_location' = r.location
                /\ LoopHead(0)
    /\ UNCHANGED <<inputs, document_id, request_body, last_payload,
                   processing_seen, storageVars, routeVars, serviceVars>>

\* _poll_for_result is called directly
PollBegin ==
    /\ entry = "poll" /\ pc = "call"
    /\ LoopHead(0)
    /\ UNCHANGED <<inputs, document_id, request_body, operation_location,
                   submit_status, submit_headers, last_payload,
                   processing_seen, storageVars, routeVars, serviceVars>>

\* a GET is answered: lines 170-185, up to the awaited sleep
GetResponds ==
    /\ pc = "await_get"
    /\ \E r \in GetResponses :
        LET d == PollDecision(r) IN
        /\ last_payload' = r.payload
        /\ processing_seen' = processing_seen + IF StillProcessing(r) THEN 1 ELSE 0
        /\ IF d.tag = "none"
           THEN /\ pc' = "await_sleep"
                /\ net' = Append(net, "SLEEP")
                /\ UNCHANGED <<attempt, poll_out, outcome>>
           ELSE PollExit(d)
    /\ UNCHANGED <<inputs, document_id, request_body, operation_location,
                   submit_status, submit_headers, storageVars, routeVars, serviceVars>>

\* the sleep is over: the next loop iteration, or line 187
SleepReturns ==
    /\ pc = "await_sleep"
    /\ LoopHead(attempt + 1)
    /\ UNCHANGED <<inputs, document_id, request_body, operation_location,
                   submit_status, submit_headers, last_payload,
                   processing_seen, storageVars, routeVars, serviceVars>>

\* _parse_analysis_result is called directly
ParseCall ==
    /\ entry = "parse" /\ pc = "call"
    /\ \E id \in DocIds :
        /\ document_id' = id
        /\ outcome' = _parse_analysis_result(id, raw)
    /\ pc' = "done"
    /\ UNCHANGED <<inputs, request_body, operation_location, submit_status,
                   submit_headers, net, attempt, last_payload,
                   processing_seen, poll_out, storageVars, routeVars, serviceVars>>

(***************************************************************************)
(* Specifications.                                                         *)
(***************************************************************************)
\* no StorageService has been constructed
NoStorage ==
    /\ client = <<>>
    /\ calls = <<>>
    /\ auth_requests = 0
    /\ auth_succeeded = 0

\* no request has reached an endpoint
NoRequest ==
    /\ http = <<>>
    /\ task = <<>>

\* nothing else is in use
NoServices ==
    /\ keyed = <<>>
    /\ construe = <<>>
    /\ instances = <<>>
    /\ requests = <<>>

Fresh ==
    /\ pc = "call"
    /\ document_id = ""
    /\ request_body = ""
    /\ operation_location = ""
    /\ submit_status = 0
    /\ submit_headers = NoHeaders
    /\ net = <<>>
    /\ attempt = 0
    /\ last_payload = NoPayload
    /\ processing_seen = 0
    /\ poll_out = NoOutcome
    /\ outcome = NoOutcome

\* analyze_document called by a caller holding document_url, on a service
\* built from any settings; _poll_for_result called on a configured service
\* with an operation location
Init ==
    /\ entry \in {"analyze", "poll"}
    /\ raw = NoPayload
    /\ IF entry = "analyze"
       THEN /\ settings \in AllSettings
            /\ document_url \in DocumentUrls
            /\ max_retries = DefaultMaxRetries
            /\ retry_interval = DefaultRetryInterval
       ELSE /\ settings = FullSettings
            /\ document_url = ""
            /\ max_retries \in 0..MaxRetriesDirect
            /\ retry_interval \in 0..MaxInterval
    /\ Fresh
    /\ NoStorage /\ NoRequest /\ NoServices

Next ==
    \/ AnalyzeBegin
    \/ PostResponds
    \/ PollBegin
    \/ GetResponds
    \/ SleepReturns

Spec == Init /\ [][Next]_vars

\* every request is answered and every sleep ends: a coroutine that can be
\* resumed is resumed (every step of Next moves pc)
SpecLive == Spec /\ WF_pc(Next)

\* _parse_analysis_result called on any payload with up to MaxFields fields
InitParse ==
    /\ entry = "parse"
    /\ settings = FullSettings
    /\ document_url = ""
    /\ max_retries = DefaultMaxRetries
    /\ retry_interval = DefaultRetryInterval
    /\ raw \in PayloadsWith(FieldMapsUpTo(MaxFields))
    /\ Fresh
    /\ NoStorage /\ NoRequest /\ NoServices

NextParse == ParseCall

SpecParse == InitParse /\ [][NextParse]_vars

(***************************************************************************)
(* Properties of analyze_document and _poll_for_result, checked under Spec.*)
(***************************************************************************)
Blank(cfg) == { n \in SettingNames : cfg[n] = "" }
Ended(status) ==
    /\ pc = "done" /\ outcome.tag = "return" /\ outcome.value.status = status
LastNet == IF net = <<>> THEN "none" ELSE net[Len(net)]

\* C1: when at least one of endpoint, key, api-version and analyzer name is
\* blank, analyze_document returns status "not_configured" and no POST and
\* no GET is ever issued.
C1_ConfigGate ==
    (entry = "analyze" /\ Blank(settings) # {} /\ pc # "call")
        => (Ended("not_configured") /\ net = <<>> /\ request_body = "")

\* C1 witness: a call with exactly one blank setting has returned.
C1_Witness ==
    /\ entry = "analyze" /\ Cardinality(Blank(settings)) = 1
    /\ Ended("not_configured")

C3_PostsCallersUrl ==
    (entry = "analyze" /\ Count("POST") > 0) => request_body = document_url

\* C4: a poll that is answered n times with a still-processing status and
\* then with succeeded returns the payload of that last answer, after n+1
\* GETs and n sleeps, each sleep between two GETs; and n < max_retries.
C4_SucceedsAfterN ==
    /\ (last_payload.hasStatus /\ last_payload.status \in SucceededSpellings)
          => (pc = "done" /\ poll_out.tag = "return"
                /\ poll_out.value = last_payload)
    /\ poll_out.tag = "return" =>
          /\ poll_out.value = last_payload
          /\ last_payload.status \in SucceededSpellings
          /\ processing_seen < max_retries
          /\ Count("GET") = processing_seen + 1
          /\ Count("SLEEP") = processing_seen
          /\ \A i \in DOMAIN net :
                net[i] = "SLEEP" =>
                    /\ 1 < i /\ i < Len(net)
                    /\ net[i - 1] = "GET" /\ net[i + 1] = "GET"

\* C4 witness: the sequence running, running, succeeded of a direct poll.
C4_Witness ==
    /\ entry = "poll" /\ poll_out.tag = "return"
    /\ processing_seen = 2 /\ net = <<"GET", "SLEEP", "GET", "SLEEP", "GET">>

\* _poll_for_result ended at line 187
TimedOut ==
    /\ poll_out.tag = "raise"
    /\ poll_out.exc.msg.fmt = "Analysis timed out after {code} seconds"

\* C5: a poll whose answers are all still-processing ends with the timeout
\* error after exactly max_retries GETs; the timeout is raised in no other
\* case, and no poll issues more than max_retries GETs.
C5_TimeoutAfterMaxRetries ==
    /\ Count("GET") <= max_retries
    /\ (pc = "done" /\ poll_out.tag # "none" /\ processing_seen = Count("GET"))
          => (TimedOut /\ Count("GET") = max_retries)
    /\ TimedOut =>
          /\ Count("GET") = max_retries /\ processing_seen = max_retries
          /\ poll_out.exc.msg.code = max_retries * retry_interval

\* C5 witness: max_retries = 2 and retry_interval = 0, never leaving running.
C5_Witness ==
    /\ entry = "poll" /\ max_retries = 2 /\ retry_interval = 0
    /\ TimedOut /\ Count("GET") = 2

\* C6: when the latest answer has status failed or cancelled in any letter
\* case, the poll has ended at that GET with an error that carries the
\* payload's error message if it has one and "Analysis failed" otherwise,
\* and analyze_document has returned status error with that message.
C6_FailedStops ==
    (last_payload.hasStatus /\ last_payload.status \in FailedSpellings) =>
        /\ pc = "done" /\ LastNet = "GET"
        /\ Count("SLEEP") = Count("GET") - 1
        /\ poll_out.tag = "raise"
        /\ poll_out.exc.msg.fmt = "Analysis {status}: {text}"
        /\ poll_out.exc.msg.status \in {S_failed, S_cancelled}
        /\ poll_out.exc.msg.text =
              IF last_payload.error.present /\ last_payload.error.hasMessage
              THEN last_payload.error.message
              ELSE "Analysis failed"
        /\ entry = "analyze" =>
              /\ Ended("error")
              /\ outcome.value.error_message = poll_out.exc.msg

\* C6 witness: "CANCELLED" with an embedded message ended an analyze call.
C6_Witness ==
    /\ entry = "analyze" /\ Ended("error")
    /\ last_payload.status = <<"C","A","N","C","E","L","L","E","D">>
    /\ last_payload.error.hasMessage
    /\ outcome.value.error_message.text = last_payload.error.message

\* the five known statuses, in the letter cases a provider may send
KnownSpellings == SucceededSpellings \cup FailedSpellings \cup ProcessingSpellings

\* C7: when the latest answer has no status, or one that is none of the
\* five known ones in any letter case, the poll has ended at that GET with
\* the unknown-status error and analyze_document has returned status error.
C7_UnknownStops ==
    (last_payload # NoPayload
       /\ (~last_payload.hasStatus \/ last_payload.status \notin KnownSpellings)) =>
        /\ pc = "done" /\ LastNet = "GET"
        /\ Count("SLEEP") = Count("GET") - 1
        /\ poll_out.tag = "raise"
        /\ poll_out.exc.msg.fmt = "Unknown status: {status}"
        /\ entry = "analyze" => Ended("error")

\* C7 witness: an analyze call ended on "Pending" after a running answer.
C7_Witness ==
    /\ entry = "analyze" /\ Ended("error")
    /\ last_payload.status = <<"P","e","n","d","i","n","g">>
    /\ processing_seen = 1

\* C10 (as claimed): a submission answered with a status other than 202 is
\* never followed by a GET and ends analyze_document with status error.
C10_Only202Polls ==
    (entry = "analyze" /\ submit_status # 0 /\ submit_status # 202) =>
        (Count("GET") = 0 /\ Ended("error"))

\* C11: when the submission is answered with a 2xx status and no
\* (or an empty) Operation-Location header, analyze_document issues no GET
\* and returns status error with the message that names the missing
\* Operation-Location header.
C11_MissingLocation ==
    (entry = "analyze" /\ IsSuccess(submit_status)
       /\ (~submit_headers.hasLocation \/ submit_headers.location = "")) =>
        /\ Count("GET") = 0 /\ poll_out = NoOutcome
        /\ Ended("error")
        /\ outcome.value.error_message.fmt = "No Operation-Location header in response"

\* C11 witness: a 202 without the header ended the call with status error.
C11_Witness ==
    /\ entry = "analyze" /\ submit_status = 202
    /\ ~submit_headers.hasLocation /\ Ended("error")

\* C12 (as claimed): a response with status success carries the terminal
\* poll payload as raw_result.
C12_RawResultIsPayload ==
    (entry = "analyze" /\ Ended("success")) =>
        outcome.value.raw_result = last_payload

\* C24: no invocation issues more than max_retries GETs, and when every
\* request is answered every invocation ends; analyze_document ends by
\* returning a result.
C24_PollTerminates ==
    /\ [](Count("GET") <= max_retries)
    /\ <>(pc = "done" /\ (entry = "analyze" => outcome.tag = "return"))

\* C24 witness: analyze_document returned after all its 60 polls were
\* answered still-processing.
C24_Witness ==
    /\ entry = "analyze" /\ pc = "done" /\ outcome.tag = "return"
    /\ Count("GET") = DefaultMaxRetries /\ processing_seen = DefaultMaxRetries

\* C25 (as claimed): no run ends with a sleep as its last step, and a run
\* with k GETs has at most k-1 sleeps.
C25_SleepsOnlyBetween ==
    pc = "done" =>
        /\ LastNet # "SLEEP"
        /\ Count("GET") >= 1 => Count("SLEEP") <= Count("GET") - 1

\* C28: a result returned by analyze_document has no error_message when its
\* status is success, has no fields and an error_message when its status is
\* error or not_configured, and carries the document id generated at the
\* start of the call.
C28_ResultShape ==
    (entry = "analyze" /\ pc = "done" /\ outcome.tag = "return") =>
        /\ outcome.value.status \in {"success", "error", "not_configured"}
        /\ outcome.value.status = "success" => outcome.value.error_message = PyNone
        /\ outcome.value.status \in {"error", "not_configured"} =>
              /\ outcome.value.fields = <<>>
              /\ outcome.value.error_message # PyNone
        /\ outcome.value.document_id = document_id

\* C28 witness: a success with a field and the second document id.
C28_Witness ==
    /\ entry = "analyze" /\ Ended("success")
    /\ outcome.value.fields # <<>> /\ outcome.value.document_id = "uuid-2"

(***************************************************************************)
(* Properties of _parse_analysis_result, checked under SpecParse.          *)
(***************************************************************************)
\* the value an entry resolves to as documented: its "value" unless that
\* is absent or null, and only then its "content"
PreferredValue(d) ==
    IF "value" \in d.has /\ d.value # PyNone THEN d.value
    ELSE IF "content" \in d.has THEN d.content
    ELSE PyNone

Parsed == entry = "parse" /\ pc = "done" /\ outcome.tag = "return"

NameAndConfidence(name, confidence) == [field_name |-> name, confidence |-> confidence]

\* the entries that are not null and do not resolve to null, in mapping
\* order, each with its name and its confidence
RECURSIVE KeptEntries(_)
KeptEntries(fields_data) ==
    IF fields_data = <<>> THEN <<>>
    ELSE LET item == Head(fields_data)
             kept == ~item.data.isNone /\ PreferredValue(item.data) # PyNone
         IN (IF kept
             THEN <<NameAndConfidence(item.name,
                        IF "confidence" \in item.data.has
                        THEN item.data.confidence ELSE PyNone)>>
             ELSE <<>>) \o KeptEntries(Tail(fields_data))

\* C8 (as claimed): the fields emitted are exactly the entries that are not
\* null and whose resolved value is not null, in the order of the mapping,
\* each with its name and confidence.
C8_EmitsExactlyNonNull ==
    Parsed =>
        [i \in DOMAIN outcome.value.fields |->
            NameAndConfidence(outcome.value.fields[i].field_name,
                              outcome.value.fields[i].confidence)]
        = KeptEntries(FieldsData(raw))

\* C9 (as claimed): every emitted field carries its entry's "value" when
\* that is present and not null, whatever it is, and its "content" only
\* when "value" is absent or null.
C9_ValuePreferred ==
    Parsed =>
        \A i \in DOMAIN outcome.value.fields :
            \A j \in DOMAIN raw.fields :
                raw.fields[j].name = outcome.value.fields[i].field_name =>
                    outcome.value.fields[i].value = PreferredValue(raw.fields[j].data)

(***************************************************************************)
(* StorageService (backend/app/services/storage.py).                       *)
(*                                                                         *)
(* One StorageService instance is used by two coroutines, each of which    *)
(* makes up to MaxCalls calls of upload_file or delete_file, one after     *)
(* the other.  A call is cut at its awaits; the callers interleave   *)
(* at those awaits as coroutines on one event loop do.                     *)
(***************************************************************************)
MaxCalls == 2
Callers == {"first", "second"}

\* the values settings gives the three storage options (config.py 45-47)
KeyIds == {"", "key-id"}
ApplicationKeys == {"", "app-key"}
BucketName == "bucket"

\* what the remote side may hand out
Tokens == {"t1", "t2"}
ApiUrl == "https://api.b2"
DownloadUrl == "https://dl.b2"

\* the requests of the storage client
R_authorize == "b2_authorize_account"
R_list_buckets == "b2_list_buckets"
R_get_upload_url == "b2_get_upload_url"
R_upload == "b2_upload_file"
R_delete == "b2_delete_file_version"

Str(v) == v.text

\* lines 20-26: __init__
StorageService(key_id, application_key) ==
    [key_id |-> key_id, application_key |-> application_key,
     bucket_name |-> BucketName,
     auth_token |-> PyNone, api_url |-> PyNone, download_url |-> PyNone]

ValueError(m) == Exc("ValueError", 0, "", Msg(m, S_empty, 0, ""))
KeyError(k) == Exc("KeyError", 0, "", Msg(k, S_empty, 0, ""))

\* an answer of the storage API: a transport failure, or a status code and
\* a JSON object with the keys `has` (its values picked by the fields)
B2Response(tr, code, has, token) ==
    [transport |-> tr, code |-> code, has |-> has, token |-> token]
B2Fails == {B2Response(TRUE, 0, {}, ""), B2Response(FALSE, 401, {}, "")}
AuthKeys == {"authorizationToken", "apiUrl", "downloadUrl"}
AuthResponses ==
    B2Fails \cup
    { B2Response(FALSE, 200, has, t) :
        has \in {AuthKeys, AuthKeys \ {"apiUrl"}, {}}, t \in Tokens }
BucketResponses ==
    B2Fails \cup { B2Response(FALSE, 200, has, "") : has \in {{"buckets"}, {}} }
UploadUrlResponses ==
    B2Fails \cup
    { B2Response(FALSE, 200, has, "u1") :
        has \in {{"uploadUrl", "authorizationToken"}, {"uploadUrl"}} }
UploadResponses ==
    B2Fails \cup { B2Response(FALSE, 200, has, "") : has \in {{"fileId"}, {}} }
DeleteResponses == B2Fails \cup {B2Response(FALSE, 200, {}, "")}

\* the await of a request and raise_for_status()
HttpFailure(r) ==
    IF r.transport THEN Raised(RequestError)
    ELSE IF ~IsSuccess(r.code) THEN Raised(HTTPStatusError(r.code, ""))
    ELSE NoOutcome

\* mutant: one credential is enough
CredentialsConfigured_Any(c) == c.key_id # "" \/ c.application_key # ""

\* line 30: all([self.key_id, self.application_key])
CredentialsConfigured(c) == c.key_id # "" /\ c.application_key # ""

\* mutant: every call authenticates
NeedsAuth_Always(c) == TRUE

\* mutant: no call authenticates
NeedsAuth_Never(c) == FALSE

\* lines 69 and 167: not self.auth_token
NeedsAuth(c) == ~Truthy(c.auth_token)

\* lines 41-44: the three assignments, in order; a missing key raises
\* KeyError and leaves the assignments before it in place
StoreSession(c, r) ==
    IF "authorizationToken" \notin r.has THEN c
    ELSE LET c1 == [c EXCEPT !.auth_token = PyVal("str", r.token)] IN
         IF "apiUrl" \notin r.has THEN c1
         ELSE LET c2 == [c1 EXCEPT !.api_url = PyVal("str", ApiUrl)] IN
              IF "downloadUrl" \notin r.has THEN c2
              ELSE [c2 EXCEPT !.download_url = PyVal("str", DownloadUrl)]

AuthDecision(r) ==
    IF HttpFailure(r).tag = "raise" THEN HttpFailure(r)
    ELSE IF "authorizationToken" \notin r.has THEN Raised(KeyError("authorizationToken"))
    ELSE IF "apiUrl" \notin r.has THEN Raised(KeyError("apiUrl"))
    ELSE IF "downloadUrl" \notin r.has THEN Raised(KeyError("downloadUrl"))
    ELSE NoOutcome

\* lines 73-75: timestamp, first 8 hex digits of the MD5, file name
UniqueFilename(timestamp, file_hash, filename) ==
    timestamp \o "_" \o file_hash \o "_" \o filename

\* lines 104-106
PublicUrl(download_url, bucket_name, unique_filename) ==
    Str(download_url) \o "/file/" \o bucket_name \o "/" \o unique_filename

\* what upload_file returns
UploadResult(file_id, public_url) == [file_id |-> file_id, public_url |-> public_url]

\* the arguments of the calls
Timestamp == "20250101_000000"
FileHash == "abcd1234"
Filename == "doc.pdf"
FileId == "file-1"

\* one call of upload_file or delete_file by a caller: the method, the
\* await it stands at, the requests it has issued and how each was
\* answered, whether its check of self.auth_token found a token, its
\* outcome, and the number of calls the caller has completed
Call(op, at, reqs, saw, out, done) ==
    [op |-> op, pc |-> at, reqs |-> reqs, answers |-> <<>>, saw_token |-> saw,
     out |-> out, done |-> done]
IdleCall == Call("none", "idle", <<>>, FALSE, NoOutcome, 0)

Finished(call, out) ==
    [call EXCEPT !.pc = "done", !.out = out, !.done = @ + 1]
Issue(call, req, at) ==
    [call EXCEPT !.pc = at, !.reqs = Append(@, req)]

\* the members of the answer's JSON the code reads after each request
RequiredKeys(req) ==
    CASE req = R_authorize -> AuthKeys
      [] req = R_list_buckets -> {"buckets"}
      [] req = R_get_upload_url -> {"uploadUrl", "authorizationToken"}
      [] req = R_upload -> {"fileId"}
      [] OTHER -> {}

\* how a request was answered
AnswerKind(req, r) ==
    IF r.transport THEN "transport error"
    ELSE IF r.code \notin 200..299 THEN "status error"
    ELSE IF ~(RequiredKeys(req) \subseteq r.has) THEN "incomplete"
    ELSE "ok"
Answer(call, req, r) ==
    [call EXCEPT !.answers = Append(@, AnswerKind(req, r))]

\* a request to a URL built from an api_url that is None ("None/b2api/...")
\* is refused by the HTTP client before anything is sent
NoScheme == B2Response(TRUE, 0, {}, "")

\* mutant: upload_file asks for the upload URL without resolving the bucket
AfterAuth_SkipBucket(call) ==
    IF call.op = "upload_file"
    THEN Issue(call, R_get_upload_url, "await_upload_url")
    ELSE Issue(call, R_delete, "await_delete")

\* lines 80 and 121 (upload_file), 170 (delete_file): the first request
\* after the session is there
AfterAuth(call) ==
    IF call.op = "upload_file"
    THEN Issue(call, R_list_buckets, "await_buckets")
    ELSE Issue(call, R_delete, "await_delete")

analysisVars == <<inputs, pc, document_id, request_body, operation_location,
                  submit_status, submit_headers, net, attempt, last_payload,
                  processing_seen, poll_out, outcome>>

\* lines 69-70 and 28-39, or 167-168 and 28-39
StorageCall(c) ==
    /\ calls[c].pc \in {"idle", "done"} /\ calls[c].done < MaxCalls
    /\ \E op \in {"upload_file", "delete_file"} :
        LET call == Call(op, "running", <<>>, Truthy(client.auth_token),
                         NoOutcome, calls[c].done) IN
        IF NeedsAuth(client)
        THEN IF ~CredentialsConfigured(client)
             THEN /\ calls' = [calls EXCEPT ![c] = Finished(call,
                        Raised(ValueError("BackBlaze B2 credentials not configured")))]
                  /\ UNCHANGED auth_requests
             ELSE /\ calls' = [calls EXCEPT ![c] =
                                   Issue(call, R_authorize, "await_auth")]
                  /\ auth_requests' = auth_requests + 1
        ELSE /\ calls' = [calls EXCEPT ![c] =
                     IF Truthy(client.api_url) THEN AfterAuth(call)
                     ELSE Finished(Answer(AfterAuth(call),
                                          AfterAuth(call).reqs[1], NoScheme),
                                   HttpFailure(NoScheme))]
             /\ UNCHANGED auth_requests
    /\ UNCHANGED <<client, auth_succeeded, analysisVars, routeVars,
                   serviceVars>>

\* lines 39-46, then on to the first request of the method
AuthResponds(c) ==
    /\ calls[c].pc = "await_auth"
    /\ \E r \in AuthResponses :
        LET d == AuthDecision(r) IN
        /\ client' = IF HttpFailure(r).tag = "raise" THEN client
                     ELSE StoreSession(client, r)
        /\ auth_succeeded' = IF d.tag = "raise" THEN auth_succeeded
                             ELSE auth_succeeded + 1
        /\ calls' = [calls EXCEPT ![c] =
                        IF d.tag = "raise" THEN Finished(Answer(@, R_authorize, r), d)
                        ELSE AfterAuth(Answer(@, R_authorize, r))]
    /\ UNCHANGED <<auth_requests, analysisVars, routeVars,
                   serviceVars>>

\* lines 147-157, then lines 123-127
BucketsResponds(c) ==
    /\ calls[c].pc = "await_buckets"
    /\ \E r \in BucketResponses :
        calls' = [calls EXCEPT ![c] =
            IF HttpFailure(r).tag = "raise"
            THEN Finished(Answer(@, R_list_buckets, r), HttpFailure(r))
            ELSE IF "buckets" \notin r.has
            THEN Finished(Answer(@, R_list_buckets, r),
                          Raised(ValueError("Bucket not found")))
            ELSE Issue(Answer(@, R_list_buckets, r), R_get_upload_url,
                       "await_upload_url")]
    /\ UNCHANGED <<client, auth_requests, auth_succeeded, analysisVars,
                   routeVars, serviceVars>>

\* lines 128-132, then lines 83-97
UploadUrlResponds(c) ==
    /\ calls[c].pc = "await_upload_url"
    /\ \E r \in UploadUrlResponses :
        calls' = [calls EXCEPT ![c] =
            IF HttpFailure(r).tag = "raise"
            THEN Finished(Answer(@, R_get_upload_url, r), HttpFailure(r))
            ELSE IF "authorizationToken" \notin r.has
            THEN Finished(Answer(@, R_get_upload_url, r),
                          Raised(KeyError("authorizationToken")))
            ELSE Issue(Answer(@, R_get_upload_url, r), R_upload, "await_upload")]
    /\ UNCHANGED <<client, auth_requests, auth_succeeded, analysisVars,
                   routeVars, serviceVars>>

\* lines 98-109
UploadResponds(c) ==
    /\ calls[c].pc = "await_upload"
    /\ \E r \in UploadResponses :
        calls' = [calls EXCEPT ![c] =
            IF HttpFailure(r).tag = "raise"
            THEN Finished(Answer(@, R_upload, r), HttpFailure(r))
            ELSE IF "fileId" \notin r.has
            THEN Finished(Answer(@, R_upload, r), Raised(KeyError("fileId")))
            ELSE Finished(Answer(@, R_upload, r), Returned(UploadResult(FileId,
                     PublicUrl(client.download_url, client.bucket_name,
                               UniqueFilename(Timestamp, FileHash, Filename)))))]
    /\ UNCHANGED <<client, auth_requests, auth_succeeded, analysisVars,
                   routeVars, serviceVars>>

\* lines 178-180
DeleteResponds(c) ==
    /\ calls[c].pc = "await_delete"
    /\ \E r \in DeleteResponses :
        calls' = [calls EXCEPT ![c] =
            IF HttpFailure(r).tag = "raise"
            THEN Finished(Answer(@, R_delete, r), HttpFailure(r))
            ELSE Finished(Answer(@, R_delete, r), Returned(PyNone))]
    /\ UNCHANGED <<client, auth_requests, auth_succeeded, analysisVars,
                   routeVars, serviceVars>>

InitStorage ==
    /\ entry = "storage"
    /\ settings = FullSettings /\ document_url = ""
    /\ max_retries = DefaultMaxRetries /\ retry_interval = DefaultRetryInterval
    /\ raw = NoPayload
    /\ Fresh
    /\ \E k \in KeyIds, a \in ApplicationKeys : client = StorageService(k, a)
    /\ calls = [c \in Callers |-> IdleCall]
    /\ auth_requests = 0 /\ auth_succeeded = 0
    /\ NoRequest /\ NoServices

NextStorage ==
    \E c \in Callers :
        \/ StorageCall(c)
        \/ AuthResponds(c)
        \/ BucketsResponds(c)
        \/ UploadUrlResponds(c)
        \/ UploadResponds(c)
        \/ DeleteResponds(c)

SpecStorage == InitStorage /\ [][NextStorage]_vars

(***************************************************************************)
(* Properties of StorageService, checked under SpecStorage.                *)
(***************************************************************************)
Started == { c \in Callers : calls[c].op # "none" }
BlankCredentials == client.key_id = "" \/ client.application_key = ""
SessionUnset ==
    /\ client.auth_token = PyNone
    /\ client.api_url = PyNone
    /\ client.download_url = PyNone
ConfigurationError(call) ==
    /\ call.pc = "done" /\ call.out.tag = "raise"
    /\ call.out.exc.kind = "ValueError"
    /\ call.out.exc.msg.fmt = "BackBlaze B2 credentials not configured"

\* C18: with a blank key id or a blank application key, every upload_file
\* and delete_file call ends by raising the configuration error without
\* having issued any request, and auth_token, api_url and download_url stay
\* unset.
C18_BlankCredentialsRaise ==
    BlankCredentials =>
        /\ \A c \in Started : ConfigurationError(calls[c]) /\ calls[c].reqs = <<>>
        /\ auth_requests = 0
        /\ SessionUnset

\* C18 witness: the key id is set, the application key is blank, and a call
\* has raised the configuration error.
C18_Witness ==
    /\ client.key_id # "" /\ client.application_key = ""
    /\ \E c \in Started : ConfigurationError(calls[c])

\* C19: no authenticate request is issued before the first call; with
\* credentials configured the first call issues one; and from the moment an
\* _authenticate call has returned, no step issues another authenticate
\* request.
C19_AuthenticatesOnce ==
    /\ [](Started = {} => auth_requests = 0)
    /\ []((Started # {} /\ ~BlankCredentials) => auth_requests >= 1)
    /\ [][auth_succeeded > 0 => auth_requests' = auth_requests]_vars

\* C19 witness: one caller made all its calls one after the other, the
\* other made none; the last call found the token, had an upstream request
\* fail, and the instance has issued one authenticate request in all.
C19_Witness ==
    /\ calls["first"].done = MaxCalls /\ calls["second"].op = "none"
    /\ calls["first"].saw_token /\ calls["first"].out.tag = "raise"
    /\ auth_succeeded = 1 /\ auth_requests = 1

\* C20: when both callers have called upload_file and neither call found a
\* cached token when it was made, as happens when the second is made while
\* the first waits for its answer, each of them has issued its own
\* authenticate request.
C20_BothAuthenticate ==
    (/\ ~BlankCredentials
     /\ Started = Callers
     /\ \A c \in Callers : calls[c].op = "upload_file" /\ ~calls[c].saw_token) =>
        /\ \A c \in Callers : calls[c].reqs[1] = R_authorize
        /\ auth_requests >= 2

\* C20 witness: both upload_file calls wait for the answer to their own
\* authenticate request.
C20_Witness ==
    /\ \A c \in Callers :
        calls[c].op = "upload_file" /\ calls[c].pc = "await_auth"
    /\ auth_requests = 2 /\ client.auth_token = PyNone

IsPrefix(p, q) == Len(p) <= Len(q) /\ \A i \in 1..Len(p) : p[i] = q[i]
ExpectedRequests(call) ==
    (IF call.saw_token THEN <<>> ELSE <<R_authorize>>)
    \o <<R_list_buckets, R_get_upload_url, R_upload>>

\* C23: the requests of an upload_file call are a prefix of authenticate
\* (when it found no token), list buckets, get upload URL, upload; a request
\* is issued only when every earlier one was answered 2xx with the members
\* the code reads; and a request answered otherwise ends the call with an
\* exception and is its last.
C23_UploadOrder ==
    \A c \in Callers :
        calls[c].op = "upload_file" =>
            LET k == calls[c] IN
            /\ IsPrefix(k.reqs, ExpectedRequests(k))
            /\ Len(k.answers) \in {Len(k.reqs) - 1, Len(k.reqs)}
            /\ \A i \in 1..(Len(k.reqs) - 1) : k.answers[i] = "ok"
            /\ (k.answers # <<>> /\ k.answers[Len(k.answers)] # "ok") =>
                  /\ Len(k.answers) = Len(k.reqs)
                  /\ k.pc = "done" /\ k.out.tag = "raise"

\* C23 witness: one upload_file went through all four requests and
\* returned, another one stopped at an empty bucket list.
C23_Witness ==
    /\ calls["first"].reqs = <<R_authorize, R_list_buckets, R_get_upload_url, R_upload>>
    /\ calls["first"].out.tag = "return"
    /\ calls["second"].op = "upload_file"
    /\ calls["second"].reqs = <<R_list_buckets>>
    /\ calls["second"].answers = <<"incomplete">>

\* C27 (as claimed): auth_token is set exactly when api_url and download_url
\* are set.
C27_SessionAllOrNothing ==
    Truthy(client.auth_token) <=>
        (Truthy(client.api_url) /\ Truthy(client.download_url))

(***************************************************************************)
(* The analyze endpoints (backend/app/api/routes.py) and the background    *)
(* task (backend/app/tasks/document_processing.py).                        *)
(*                                                                         *)
(* One request to one of the two endpoints is followed from the call of    *)
(* its handler to the end of the background task it scheduled.  The        *)
(* handler and the task are cut at their awaits.  upload_file is entered   *)
(* through its outcomes (the values and the exceptions the StorageService  *)
(* actions above end a call with).                                         *)
(***************************************************************************)
\* UploadFile: whether read() works, filename, content_type
UploadFile(readable, filename, content_type) ==
    [readable |-> readable, filename |-> filename, content_type |-> content_type]
UploadFiles ==
    { UploadFile(r, f, t) :
        r \in BOOLEAN,
        f \in {PyNone, PyVal("str", Filename)},
        t \in {PyNone, PyVal("str", "application/pdf")} }
Content == "%PDF-1.4"
IOError == Exc("OSError", 0, "", Msg("read failed", S_empty, 0, ""))

\* routes.py 88-89, 98, 149-150
FilenameOf(file) == Str(PyOr(file.filename, PyVal("str", "unknown.pdf")))
ContentTypeOf(file) ==
    Str(PyOr(file.content_type, PyVal("str", "application/octet-stream")))

\* the arguments of an upload_file call
UploadArgs(content, filename, content_type) ==
    [file_content |-> content, filename |-> filename, content_type |-> content_type]
NoArgs == UploadArgs("", "", "")

\* storage.py 73: the second at which the upload runs
Timestamps == {Timestamp, "20250101_000001"}

\* what upload_file(content, filename, content_type) may end with
UploadOutcomes(filename) ==
    { Returned(UploadResult(FileId,
          PublicUrl(PyVal("str", DownloadUrl), BucketName,
                    UniqueFilename(ts, FileHash, filename)))) : ts \in Timestamps }
    \cup { Raised(ValueError("BackBlaze B2 credentials not configured")),
           Raised(RequestError), Raised(HTTPStatusError(401, "")),
           Raised(KeyError("fileId")) }

\* the arguments of an analyze_document_from_url call
AnalysisArgs(url, filename) ==
    [document_url |-> url, filename |-> filename]
NotCalled == AnalysisArgs("", "")

\* content_understanding_service.analyze_document_from_url(document_url,
\* filename): a result object with one of the three statuses, or an
\* exception (the class under src/ defines no such method, so that the
\* attribute lookup raises AttributeError; a test double raises Exception)
analyze_document_from_url(url, filename) ==
    { Returned(DocumentAnalysisResponse(id, fs, "success", NoMsg)) :
        id \in DocIds,
        fs \in {<<>>, <<ExtractedField("title", PyVal("str", "T"), PyVal("float", "0.95"))>>} }
    \cup { Returned(DocumentAnalysisResponse(id, <<>>, "error",
               Msg("HTTP {code}: {text}", S_empty, 500, "boom"))) : id \in DocIds }
    \cup { Returned(NotConfiguredResponse(id)) : id \in DocIds }
    \cup { Raised(AttributeError),
           Raised(PlainException(Msg("Processing failed", S_empty, 0, ""))) }

\* raise HTTPException(status_code=500, detail=f"{prefix}: {str(e)}")
HTTPException(status_code, prefix, e) ==
    Exc("HTTPException", status_code, "", Msg(prefix, S_empty, e.msg.code, e.msg.fmt))

\* the HTTP response: status code, body (handler's return value), detail
Response(status_code, body, detail) ==
    [status_code |-> status_code, body |-> body, detail |-> detail]
NoHttpResponse == Response(0, NoResponse, NoMsg)

\* what the framework answers for what the handler ended with: 200 and the
\* returned value, the status and detail of an HTTPException, and its
\* generic 500 for any other exception
Respond(o) ==
    IF o.tag = "return" THEN Response(200, o.value, NoMsg)
    ELSE IF o.exc.kind = "HTTPException" THEN Response(o.exc.code, NoResponse, o.exc.msg)
    ELSE Response(500, NoResponse, Msg("Internal Server Error", S_empty, 0, ""))

\* routes.py 159-163
Queued(id) ==
    [document_id |-> id, status |-> "queued",
     message |-> "Document queued for processing. Check status using document_id."]

\* the handler of one request: the endpoint, the await it stands at, the
\* uploaded file, the document id an async request generated, the calls it
\* made and what they ended with, what the try statement ended with, the
\* number of file.close() calls, and the response the framework sent
Handler(endpoint, file) ==
    [endpoint |-> endpoint, pc |-> "call", file |-> file, doc_id |-> "",
     upload_args |-> NoArgs, upload |-> NoOutcome,
     analysis_args |-> NotCalled, analysis |-> NoOutcome,
     pending |-> NoOutcome, closes |-> 0, response |-> NoHttpResponse]

\* the arguments add_task was given
TaskArgs(id, content, filename, content_type) ==
    [document_id |-> id, file_content |-> content, filename |-> filename,
     content_type |-> content_type]

\* document_processing.py 54-60 and 66: the two dicts the task returns
Completed(id, file_id, file_url, result) ==
    [document_id |-> id, file_id |-> file_id, file_url |-> file_url,
     analysis_result |-> result, status |-> "completed"]
Failed(id, e) == [document_id |-> id, status |-> "failed", error |-> e.msg]
NoTaskResult == [status |-> "none"]

\* the background task: where it stands, its arguments, the calls it made
\* and what they ended with, and what it returned
Task(at, args) ==
    [pc |-> at, args |-> args, upload_args |-> NoArgs, upload |-> NoOutcome,
     analysis_args |-> NotCalled, analysis |-> NoOutcome,
     result |-> NoTaskResult]
NoTask == Task("none", TaskArgs("", "", "", ""))

\* routes.py 106 and 168: the detail's prefix
DetailPrefix(endpoint) ==
    IF endpoint = "sync" THEN "Failed to analyze document" ELSE "Failed to queue document"

\* mutant: the handler lets the exception through
ExceptHandler_Reraise(endpoint, e) == Raised(e)

\* routes.py 103-108 and 165-170: except Exception as e
ExceptHandler(endpoint, e) == Raised(HTTPException(500, DetailPrefix(endpoint), e))

\* mutant: the analysis is given a fixed URL
AnalysisUrl_Hardcoded(uploaded) == test_file_url

\* routes.py 86 and 97, document_processing.py 41 and 50: public_url is the
\* second member of what upload_file returned
AnalysisUrl(uploaded) == uploaded.public_url

\* mutant: the handler returns a fresh object that keeps id and status only
SyncReturn_Rebuilt(result) ==
    Returned(DocumentAnalysisResponse(result.document_id, <<>>, result.status, NoMsg))

\* routes.py 101: return result
SyncReturn(result) == Returned(result)

\* mutant: the file is closed on the success path only
Finally_OnReturn(h, pending) ==
    [h EXCEPT !.pending = pending,
              !.pc = IF pending.tag = "return" THEN "await_close" ELSE "returned"]

\* routes.py 109-110 and 171-172: the try statement ended with `pending`
\* (a return value or an exception); finally awaits file.close()
Finally(h, pending) == [h EXCEPT !.pending = pending, !.pc = "await_close"]

\* mutant: the task may run as soon as it is scheduled
TaskMayStart_Scheduled(h) == TRUE

\* routes.py 155-157: a task given to BackgroundTasks runs after the
\* response was sent
TaskMayStart(h) == h.pc = "sent"

\* routes.py 70 and 143-145: the handler is called and awaits file.read()
RouteCall ==
    /\ http.pc = "call"
    /\ \E id \in DocIds :
        http' = [http EXCEPT !.pc = "await_read",
                             !.doc_id = IF http.endpoint = "async" THEN id ELSE ""]
    /\ UNCHANGED <<task, analysisVars, serviceVars, storageVars>>

\* routes.py 77-90 (sync), 148-163 (async)
ReadReturns ==
    /\ http.pc = "await_read"
    /\ IF ~http.file.readable
       THEN /\ http' = Finally(http, ExceptHandler(http.endpoint, IOError))
            /\ UNCHANGED task
       ELSE IF http.endpoint = "sync"
       THEN /\ http' = [http EXCEPT
                 !.pc = "await_upload",
                 !.upload_args = UploadArgs(Content, FilenameOf(http.file),
                                            ContentTypeOf(http.file))]
            /\ UNCHANGED task
       ELSE /\ task' = Task("scheduled",
                            TaskArgs(http.doc_id, Content, FilenameOf(http.file),
                                     ContentTypeOf(http.file)))
            /\ http' = Finally(http, Returned(Queued(http.doc_id)))
    /\ UNCHANGED <<analysisVars, serviceVars, storageVars>>

\* routes.py 86-99: upload_file ends, the analysis is called
UploadReturns ==
    /\ http.pc = "await_upload"
    /\ \E o \in UploadOutcomes(http.upload_args.filename) :
        http' = IF o.tag = "raise"
                THEN Finally([http EXCEPT !.upload = o],
                             ExceptHandler(http.endpoint, o.exc))
                ELSE [http EXCEPT
                         !.upload = o,
                         !.pc = "await_analysis",
                         !.analysis_args = AnalysisArgs(AnalysisUrl(o.value),
                                                        FilenameOf(http.file))]
    /\ UNCHANGED <<task, analysisVars, serviceVars, storageVars>>

\* routes.py 96-108: the analysis call ends
AnalysisReturns ==
    /\ http.pc = "await_analysis"
    /\ \E o \in analyze_document_from_url(http.analysis_args.document_url,
                                          http.analysis_args.filename) :
        http' = Finally([http EXCEPT !.analysis = o],
                        IF o.tag = "raise" THEN ExceptHandler(http.endpoint, o.exc)
                        ELSE SyncReturn(o.value))
    /\ UNCHANGED <<task, analysisVars, serviceVars, storageVars>>

\* routes.py 110 and 172: file.close() returns and the handler ends
CloseReturns ==
    /\ http.pc = "await_close"
    /\ http' = [http EXCEPT !.closes = @ + 1, !.pc = "returned"]
    /\ UNCHANGED <<task, analysisVars, serviceVars, storageVars>>

\* the framework sends the response for what the handler ended with
SendResponse ==
    /\ http.pc = "returned"
    /\ http' = [http EXCEPT !.response = Respond(http.pending), !.pc = "sent"]
    /\ UNCHANGED <<task, analysisVars, serviceVars, storageVars>>

\* document_processing.py 37-43
TaskStart ==
    /\ task.pc = "scheduled" /\ TaskMayStart(http)
    /\ task' = [task EXCEPT
           !.pc = "await_upload",
           !.upload_args = UploadArgs(task.args.file_content, task.args.filename,
                                      task.args.content_type)]
    /\ UNCHANGED <<http, analysisVars, serviceVars, storageVars>>

\* mutant: the exception leaves the task
TaskExcept_Reraise(id, e) == [Failed(id, e) EXCEPT !.status = "raised"]

\* document_processing.py 62-66: except Exception as e
TaskExcept(id, e) == Failed(id, e)

\* document_processing.py 41-51
TaskUploadReturns ==
    /\ task.pc = "await_upload"
    /\ \E o \in UploadOutcomes(task.upload_args.filename) :
        task' = IF o.tag = "raise"
                THEN [task EXCEPT !.upload = o, !.pc = "done",
                         !.result = TaskExcept(task.args.document_id, o.exc)]
                ELSE [task EXCEPT
                         !.upload = o,
                         !.pc = "await_analysis",
                         !.analysis_args = AnalysisArgs(AnalysisUrl(o.value),
                                                        task.args.filename)]
    /\ UNCHANGED <<http, analysisVars, serviceVars, storageVars>>

\* document_processing.py 49-66
TaskAnalysisReturns ==
    /\ task.pc = "await_analysis"
    /\ \E o \in analyze_document_from_url(task.analysis_args.document_url,
                                          task.analysis_args.filename) :
        task' = [task EXCEPT
            !.analysis = o,
            !.pc = "done",
            !.result = IF o.tag = "raise"
                       THEN TaskExcept(task.args.document_id, o.exc)
                       ELSE Completed(task.args.document_id,
                                      task.upload.value.file_id,
                                      task.upload.value.public_url, o.value)]
    /\ UNCHANGED <<http, analysisVars, serviceVars, storageVars>>

InitRoute ==
    /\ entry = "route"
    /\ settings = FullSettings /\ document_url = ""
    /\ max_retries = DefaultMaxRetries /\ retry_interval = DefaultRetryInterval
    /\ raw = NoPayload
    /\ Fresh
    /\ NoStorage
    /\ \E e \in {"sync", "async"}, f \in UploadFiles : http = Handler(e, f)
    /\ task = NoTask
    /\ NoServices

NextRoute ==
    \/ RouteCall
    \/ ReadReturns
    \/ UploadReturns
    \/ AnalysisReturns
    \/ CloseReturns
    \/ SendResponse
    \/ TaskStart
    \/ TaskUploadReturns
    \/ TaskAnalysisReturns

SpecRoute == InitRoute /\ [][NextRoute]_vars

(***************************************************************************)
(* Properties of the analyze endpoints, checked under SpecRoute.           *)
(***************************************************************************)
Sync == http.endpoint = "sync"
HandlerEnded == http.pc \in {"returned", "sent"}
AnalysisCalled == http.analysis_args # NotCalled
ReadFailed == http.pc \notin {"call", "await_read"} /\ ~http.file.readable
ExceptionRaised ==
    ReadFailed \/ http.upload.tag = "raise" \/ http.analysis.tag = "raise"
ChainStarted == task.pc \in {"await_upload", "await_analysis", "done"}

C15_ExceptionsBecome500 ==
    (Sync /\ ExceptionRaised) =>
        /\ HandlerEnded =>
              /\ http.pending.tag = "raise"
              /\ http.pending.exc.kind = "HTTPException"
              /\ http.pending.exc.code = 500
              /\ http.pending.exc.msg.fmt = "Failed to analyze document"
        /\ http.pc = "sent" =>
              /\ http.response.status_code = 500
              /\ http.response.detail.fmt = "Failed to analyze document"

\* C15 witness: the upload raised and the 500 was sent.
C15_Witness ==
    /\ Sync /\ http.pc = "sent" /\ http.upload.tag = "raise"
    /\ http.response.status_code = 500

\* C16: file.close() is never called twice, and when the handler of either
\* endpoint has ended it has been called once.
C16_ClosedOnce ==
    /\ http.closes <= 1
    /\ HandlerEnded => http.closes = 1

\* C16 witness: the asynchronous handler ended on its failure path with the
\* file closed.
C16_Witness ==
    /\ ~Sync /\ HandlerEnded /\ http.pending.tag = "raise" /\ http.closes = 1

\* C17: when the background chain has started, the response with status
\* queued and the task's document id has been sent, and no step changes the
\* response after it was sent.
C17_QueuedBeforeChain ==
    /\ [](ChainStarted =>
            /\ http.pc = "sent" /\ http.response.status_code = 200
            /\ http.response.body.status = "queued"
            /\ http.response.body.document_id = task.args.document_id)
    /\ [][http.pc = "sent" => http' = http]_vars

\* C17 witness: the chain ended failed after the queued response was sent.
C17_Witness ==
    /\ task.pc = "done" /\ task.result.status = "failed"
    /\ http.response.body.status = "queued"

\* C29: process_document_task always ends by returning a dict with the
\* document_id it was called with: status "completed" exactly when
\* upload_file and the analysis client both returned (the dict then carries
\* the upload's file id and URL and the analysis result, whatever its
\* status), and status "failed" with the text of the exception when the
\* upload or the analysis raised.
C29_TaskNeverRaises ==
    task.pc = "done" =>
        /\ task.result.status \in {"completed", "failed"}
        /\ task.result.document_id = task.args.document_id
        /\ task.result.status = "completed" <=>
              (task.upload.tag = "return" /\ task.analysis.tag = "return")
        /\ task.result.status = "completed" =>
              task.result = Completed(task.args.document_id,
                                      task.upload.value.file_id,
                                      task.upload.value.public_url,
                                      task.analysis.value)
        /\ task.result.status = "failed" =>
              task.result.error = IF task.upload.tag = "raise"
                                  THEN task.upload.exc.msg
                                  ELSE task.analysis.exc.msg

\* C29 witness: the chain completed although the analysis result it carries
\* has status error.
C29_Witness ==
    /\ task.pc = "done" /\ task.result.status = "completed"
    /\ task.analysis.tag = "return" /\ task.analysis.value.status = "error"
    /\ task.result.document_id = http.doc_id

(***************************************************************************)
(* The storage key and the public URL of an upload (storage.py 73-75 and   *)
(* 104-106), computed for two uploads through one StorageService.          *)
(***************************************************************************)
DigitChars == <<"0", "1", "2", "3", "4", "5", "6", "7", "8", "9">>

\* mutant: %m, %d, %H, %M, %S without the leading zero
Pad2_NoPadding(n) ==
    IF n < 10 THEN DigitChars[n + 1]
    ELSE DigitChars[((n \div 10) % 10) + 1] \o DigitChars[(n % 10) + 1]

\* strftime's two-digit fields
Pad2(n) == DigitChars[((n \div 10) % 10) + 1] \o DigitChars[(n % 10) + 1]
\* %Y
Pad4(n) == DigitChars[((n \div 1000) % 10) + 1] \o DigitChars[((n \div 100) % 10) + 1]
           \o DigitChars[((n \div 10) % 10) + 1] \o DigitChars[(n % 10) + 1]

\* datetime.utcnow(), to the second
Instant(Y, M, D, h, m, sec) ==
    [year |-> Y, month |-> M, day |-> D, hour |-> h, minute |-> m, second |-> sec]
Instants == {Instant(2025, 1, 1, 0, 0, 0), Instant(2025, 1, 1, 0, 0, 1),
             Instant(2025, 1, 11, 0, 0, 0), Instant(2025, 11, 1, 0, 0, 0)}

\* strftime("%Y%m%d_%H%M%S")
Strftime(t) ==
    Pad4(t.year) \o Pad2(t.month) \o Pad2(t.day) \o "_"
    \o Pad2(t.hour) \o Pad2(t.minute) \o Pad2(t.second)

\* hashlib.md5(file_content).hexdigest() of the contents used; the last two
\* agree on their first 8 digits
Contents == {"%PDF-1.4", "doc-30728", "doc-37140"}
Md5Hex(content) ==
    CASE content = "%PDF-1.4" -> "914240125319291c7cb7e712e419b254"
      [] content = "doc-30728" -> "636f3b6cac844ae7b4117cae73cc76ec"
      [] content = "doc-37140" -> "636f3b6c119d1d8b56d03a5938080824"

\* hexdigest()[:8]
HashPrefix(content) == SubSeq(Md5Hex(content), 1, 8)

Filenames == {"doc.pdf", "a_doc.pdf", "unknown.pdf"}

\* one upload: when it runs, what it is given, and the key and URL it got
KeyedUpload(t, content, filename, key, url) ==
    [instant |-> t, content |-> content, filename |-> filename,
     unique_filename |-> key, public_url |-> url]

\* storage.py 73-75 and 104-106 for upload u
KeyUpload(u) ==
    /\ keyed[u].unique_filename = ""
    /\ LET key == UniqueFilename(Strftime(keyed[u].instant),
                                 HashPrefix(keyed[u].content), keyed[u].filename) IN
       keyed' = [keyed EXCEPT
           ![u].unique_filename = key,
           ![u].public_url = PublicUrl(PyVal("str", DownloadUrl), BucketName, key)]
    /\ UNCHANGED <<construe, instances, requests, analysisVars, storageVars,
                   routeVars>>

InitKey ==
    /\ entry = "key"
    /\ settings = FullSettings /\ document_url = ""
    /\ max_retries = DefaultMaxRetries /\ retry_interval = DefaultRetryInterval
    /\ raw = NoPayload
    /\ Fresh /\ NoStorage /\ NoRequest
    /\ keyed \in [{"a", "b"} ->
                    { KeyedUpload(t, c, f, "", "") :
                        t \in Instants, c \in Contents, f \in Filenames }]
    /\ construe = <<>> /\ instances = <<>> /\ requests = <<>>

NextKey == \E u \in {"a", "b"} : KeyUpload(u)

SpecKey == InitKey /\ [][NextKey]_vars

(***************************************************************************)
(* Properties of the storage key, checked under SpecKey.                   *)
(***************************************************************************)
BothKeyed == \A u \in {"a", "b"} : keyed[u].unique_filename # ""
SameTriple ==
    /\ keyed["a"].instant = keyed["b"].instant
    /\ HashPrefix(keyed["a"].content) = HashPrefix(keyed["b"].content)
    /\ keyed["a"].filename = keyed["b"].filename

\* C21: two uploads that agree on the second, on the first 8 hex digits of
\* the MD5 and on the filename get the same key and the same public URL;
\* two that differ in one of the three get different keys; and the public
\* URL is the download base, "/file/", the bucket, "/" and the key.
C21_KeyIsFunctionOfTriple ==
    BothKeyed =>
        /\ SameTriple =>
              /\ keyed["a"].unique_filename = keyed["b"].unique_filename
              /\ keyed["a"].public_url = keyed["b"].public_url
        /\ ~SameTriple => keyed["a"].unique_filename # keyed["b"].unique_filename
        /\ \A u \in {"a", "b"} :
              keyed[u].public_url =
                  DownloadUrl \o "/file/" \o BucketName \o "/" \o keyed[u].unique_filename

\* C21 witness: two different contents with the same hash prefix, uploaded
\* in the same second under the same name, got the same key.
C21_Witness ==
    /\ BothKeyed /\ SameTriple
    /\ keyed["a"].content # keyed["b"].content
    /\ keyed["a"].unique_filename = keyed["b"].unique_filename

(***************************************************************************)
(* PhenoMLConstrueService.process_extracted_data                           *)
(* (backend/app/services/phenoml_construe.py).                             *)
(***************************************************************************)
\* a JSON object as far as it is looked at: "status", "error" and the rest
Json(status, error, data) == [status |-> status, error |-> error, data |-> data]
NoJson == Json("none", NoMsg, "")

\* what the remote side may return as the body of a 2xx answer
ConstrueBodies ==
    { Json("processed", NoMsg, "r1"), Json("processed", NoMsg, "r2"),
      Json("error", Msg("rejected by schema", S_empty, 0, ""), "") }

\* an answer to the POST: transport failure, status code, whether the body
\* is JSON, the parsed body
ConstrueResponse(tr, code, isJson, parsed) ==
    [transport |-> tr, code |-> code, json |-> isJson, body |-> parsed]
NoConstrueResponse == ConstrueResponse(FALSE, 0, FALSE, NoJson)
ConstrueResponses ==
    {ConstrueResponse(TRUE, 0, FALSE, NoJson)}
    \cup { ConstrueResponse(FALSE, c, FALSE, NoJson) : c \in {200, 400, 401, 500} }
    \cup { ConstrueResponse(FALSE, c, TRUE, b) : c \in {200, 201}, b \in ConstrueBodies }

\* the argument: the extracted fields
ExtractedFieldSets == SUBSET {"title", "phase", "sponsor"}

\* lines 15-17 and the call's state: where it stands, the POSTs it issued,
\* the answer it got, and what it ended with
Construe(endpoint, api_key, fields) ==
    [endpoint |-> endpoint, api_key |-> api_key, extracted_fields |-> fields,
     pc |-> "call", posts |-> 0, response |-> NoConstrueResponse,
     out |-> NoOutcome]

\* lines 35-39
ConstrueConfigured(c) == c.endpoint # "" /\ c.api_key # ""
ConstrueNotConfigured ==
    Json("not_configured",
         Msg("PhenoML Construe credentials not configured", S_empty, 0, ""), "")

\* lines 45-56: the body of the try statement, given the answer
ConstrueBody(r) ==
    IF r.transport THEN Raised(RequestError)
    ELSE IF ~IsSuccess(r.code) THEN Raised(HTTPStatusError(r.code, ""))
    ELSE IF ~r.json THEN Raised(JSONDecodeError)
    ELSE Returned(r.body)

\* mutant: only httpx.HTTPError is caught
ConstrueExcept_HttpOnly(o) ==
    IF o.tag = "raise" /\ o.exc.kind \in {"HTTPStatusError", "RequestError"}
    THEN Returned(Json("error", o.exc.msg, ""))
    ELSE o

\* lines 58-67: except httpx.HTTPError, except Exception
ConstrueExcept(o) ==
    IF o.tag = "raise" THEN Returned(Json("error", o.exc.msg, "")) ELSE o

\* lines 35-47
ConstrueCall ==
    /\ construe.pc = "call"
    /\ construe' =
          IF ~ConstrueConfigured(construe)
          THEN [construe EXCEPT !.pc = "done", !.out = Returned(ConstrueNotConfigured)]
          ELSE [construe EXCEPT !.pc = "await_post", !.posts = @ + 1]
    /\ UNCHANGED <<keyed, instances, requests, analysisVars, storageVars, routeVars>>

\* lines 47-67
ConstrueResponds ==
    /\ construe.pc = "await_post"
    /\ \E r \in ConstrueResponses :
        construe' = [construe EXCEPT !.pc = "done", !.response = r,
                                     !.out = ConstrueExcept(ConstrueBody(r))]
    /\ UNCHANGED <<keyed, instances, requests, analysisVars, storageVars, routeVars>>

InitConstrue ==
    /\ entry = "construe"
    /\ settings = FullSettings /\ document_url = ""
    /\ max_retries = DefaultMaxRetries /\ retry_interval = DefaultRetryInterval
    /\ raw = NoPayload
    /\ Fresh /\ NoStorage /\ NoRequest
    /\ \E e \in {"", "https://phenoml"}, k \in {"", "key"}, f \in ExtractedFieldSets :
          construe = Construe(e, k, f)
    /\ keyed = <<>> /\ instances = <<>> /\ requests = <<>>

NextConstrue == ConstrueCall \/ ConstrueResponds

SpecConstrue == InitConstrue /\ [][NextConstrue]_vars

(***************************************************************************)
(* Properties of process_extracted_data, checked under SpecConstrue.       *)
(***************************************************************************)
ConstrueAnswered == construe.pc = "done" /\ construe.posts = 1
ConstrueFailed == construe.response.transport \/ ~IsSuccess(construe.response.code)

Requests == {"sync-1", "sync-2", "chain-1"}

\* mutant: the storage client is one module-level object
InstanceOf_Shared(r) == "shared"

\* routes.py 48 (Depends() calls StorageService once per request) and
\* document_processing.py 40 (StorageService() in the task body): the
\* instance a request works with is one constructed for it
InstanceOf(r) == r

Instance(c, writers) == [client |-> c, writers |-> writers]
NoInstance == "none"
Session(inst, call, read_from) ==
    [instance |-> inst, call |-> call, read_from |-> read_from]
IdleSession == Session(NoInstance, IdleCall, <<>>)

ClientOf(r) == instances[requests[r].instance].client
WritersOf(r) == instances[requests[r].instance].writers

\* the request reads self.auth_token for a header or a check
ReadToken(sess, writers) == [sess EXCEPT !.read_from = Append(@, writers)]

sessionOthers == <<keyed, construe, analysisVars, storageVars, routeVars>>

\* the request gets its storage client: an object constructed now, with
\* the attributes __init__ gives it (storage.py 20-26)
SessionConstruct(r) ==
    /\ requests[r].instance = NoInstance
    /\ LET i == InstanceOf(r) IN
        /\ requests' = [requests EXCEPT ![r].instance = i]
        /\ instances' =
              IF i \in DOMAIN instances THEN instances
              ELSE [j \in DOMAIN instances \cup {i} |->
                      IF j = i
                      THEN Instance(StorageService(settings.key_id,
                                                   settings.application_key), {})
                      ELSE instances[j]]
    /\ UNCHANGED sessionOthers

\* routes.py 63-65 and document_processing.py 41-45 call upload_file:
\* storage.py 69-70 and 28-39
SessionUpload(r) ==
    /\ requests[r].instance # NoInstance /\ requests[r].call.pc = "idle"
    /\ LET call == Call("upload_file", "running", <<>>,
                        Truthy(ClientOf(r).auth_token), NoOutcome, 0)
           sess == ReadToken(requests[r], WritersOf(r)) IN
        requests' = [requests EXCEPT ![r] =
            IF NeedsAuth(ClientOf(r))
            THEN IF ~CredentialsConfigured(ClientOf(r))
                 THEN [sess EXCEPT !.call = Finished(call,
                          Raised(ValueError("BackBlaze B2 credentials not configured")))]
                 ELSE [sess EXCEPT !.call = Issue(call, R_authorize, "await_auth")]
            ELSE IF Truthy(ClientOf(r).api_url)
            THEN [sess EXCEPT !.call = AfterAuth(call)]
            ELSE [sess EXCEPT !.call =
                     Finished(Answer(AfterAuth(call), AfterAuth(call).reqs[1],
                                     NoScheme), HttpFailure(NoScheme))]]
    /\ UNCHANGED <<instances, sessionOthers>>

\* storage.py 39-46, then 121 and 134-146: the token is written to the
\* instance, then read again for the header of b2_list_buckets
SessionAuthResponds(r) ==
    /\ requests[r].call.pc = "await_auth"
    /\ \E a \in AuthResponses :
        LET d == AuthDecision(a)
            stored == IF HttpFailure(a).tag = "raise" THEN ClientOf(r)
                      ELSE StoreSession(ClientOf(r), a)
            writers == IF HttpFailure(a).tag # "raise"
                          /\ "authorizationToken" \in a.has
                       THEN {r} ELSE WritersOf(r) IN
        /\ instances' = [instances EXCEPT ![requests[r].instance] =
                            Instance(stored, writers)]
        /\ requests' = [requests EXCEPT ![r] =
              IF d.tag = "raise"
              THEN [@ EXCEPT !.call = Finished(Answer(@, R_authorize, a), d)]
              ELSE [ReadToken(@, writers) EXCEPT
                        !.call = AfterAuth(Answer(@, R_authorize, a))]]
    /\ UNCHANGED sessionOthers

\* storage.py 147-157, then 123-127: the token is read for the header of
\* b2_get_upload_url
SessionBucketsResponds(r) ==
    /\ requests[r].call.pc = "await_buckets"
    /\ \E a \in BucketResponses :
        requests' = [requests EXCEPT ![r] =
            IF HttpFailure(a).tag = "raise"
            THEN [@ EXCEPT !.call = Finished(Answer(@, R_list_buckets, a),
                                             HttpFailure(a))]
            ELSE IF "buckets" \notin a.has
            THEN [@ EXCEPT !.call = Finished(Answer(@, R_list_buckets, a),
                                             Raised(ValueError("Bucket not found")))]
            ELSE [ReadToken(@, WritersOf(r)) EXCEPT
                      !.call = Issue(Answer(@, R_list_buckets, a),
                                     R_get_upload_url, "await_upload_url")]]
    /\ UNCHANGED <<instances, sessionOthers>>

\* storage.py 128-132, then 83-97: the upload goes out with the upload
\* token of the answer
SessionUploadUrlResponds(r) ==
    /\ requests[r].call.pc = "await_upload_url"
    /\ \E a \in UploadUrlResponses :
        requests' = [requests EXCEPT ![r].call =
            IF HttpFailure(a).tag = "raise"
            THEN Finished(Answer(@, R_get_upload_url, a), HttpFailure(a))
            ELSE IF "authorizationToken" \notin a.has
            THEN Finished(Answer(@, R_get_upload_url, a),
                          Raised(KeyError("authorizationToken")))
            ELSE Issue(Answer(@, R_get_upload_url, a), R_upload, "await_upload")]
    /\ UNCHANGED <<instances, sessionOthers>>

\* storage.py 98-109
SessionUploadResponds(r) ==
    /\ requests[r].call.pc = "await_upload"
    /\ \E a \in UploadResponses :
        requests' = [requests EXCEPT ![r].call =
            IF HttpFailure(a).tag = "raise"
            THEN Finished(Answer(@, R_upload, a), HttpFailure(a))
            ELSE IF "fileId" \notin a.has
            THEN Finished(Answer(@, R_upload, a), Raised(KeyError("fileId")))
            ELSE Finished(Answer(@, R_upload, a), Returned(UploadResult(FileId,
                     PublicUrl(ClientOf(r).download_url, ClientOf(r).bucket_name,
                               UniqueFilename(Timestamp, FileHash, Filename)))))]
    /\ UNCHANGED <<instances, sessionOthers>>

\* the storage credentials are configured or not for the whole process;
\* no request has arrived
InitSessions ==
    /\ entry = "sessions"
    /\ \E k \in KeyIds, a \in ApplicationKeys :
          settings = [n \in SettingNames \cup {"key_id", "application_key"} |->
                         IF n = "key_id" THEN k
                         ELSE IF n = "application_key" THEN a
                         ELSE "configured"]
    /\ document_url = ""
    /\ max_retries = DefaultMaxRetries /\ retry_interval = DefaultRetryInterval
    /\ raw = NoPayload
    /\ Fresh /\ NoStorage /\ NoRequest
    /\ keyed = <<>> /\ construe = <<>>
    /\ instances = <<>>
    /\ requests = [r \in Requests |-> IdleSession]

NextSessions ==
    \E r \in Requests :
        \/ SessionConstruct(r)
        \/ SessionUpload(r)
        \/ SessionAuthResponds(r)
        \/ SessionBucketsResponds(r)
        \/ SessionUploadUrlResponds(r)
        \/ SessionUploadResponds(r)

SpecSessions == InitSessions /\ [][NextSessions]_vars

(***************************************************************************)
(* Properties of concurrent requests, checked under SpecSessions.          *)
(***************************************************************************)
Arrived == { r \in Requests : requests[r].instance # NoInstance }
Authenticated(r) ==
    /\ r \in Arrived
    /\ Len(requests[r].call.answers) >= 1 /\ requests[r].call.answers[1] = "ok"
    /\ requests[r].call.reqs[1] = R_authorize

\* C26: requests in flight at the same time work on different storage
\* client instances; a request never finds a token on its instance or reads
\* one that another request has written, the token of an instance is
\* written by nobody but the request that owns it, and a request that gets
\* past the credential check starts with its own authorize request.
C26_OwnSession ==
    \A r \in Arrived :
        /\ \A q \in Arrived \ {r} : requests[q].instance # requests[r].instance
        /\ ~requests[r].call.saw_token
        /\ WritersOf(r) \subseteq {r}
        /\ \A k \in DOMAIN requests[r].read_from :
              requests[r].read_from[k] \subseteq {r}
        /\ requests[r].call.reqs # <<>> => requests[r].call.reqs[1] = R_authorize

\* C26 witness: the three requests have authenticated while the others were
\* in flight, two of them were handed different tokens, and each instance
\* holds the token of its own request.
C26_Witness ==
    /\ \A r \in Requests : Authenticated(r) /\ WritersOf(r) = {r}
    /\ ClientOf("sync-1").auth_token # ClientOf("chain-1").auth_token
    /\ \A r \in Requests : requests[r].call.pc = "await_buckets"

====
